---------------------------- MODULE Spec2Model ----------------------------
(***************************************************************************)
(* Model of AliCSPIDCuts (PWGCF/Correlations/DPhi/Unfoldedhistos):  the    *)
(* PID track cuts of the correlation studies analysis.                     *)
(*                                                                         *)
(* The AliCSPIDCuts instance is the record `cuts`; its fields carry the    *)
(* names of the data members.  Every member function is an operator that   *)
(* takes the instance (`this`) and returns the instance it leaves behind   *)
(* together with its return value, [this |-> ..., ret |-> ...].            *)
(*                                                                         *)
(* Units.  n-sigma values and bounds are kept in tenths of a sigma         *)
(* (-100.0 is -1000, 3.5 is 35).  Momenta are kept in tenths of GeV/c      *)
(* (0.3 is 3, 9999.0 is 99990, 1e6 is 10000000).                           *)
(***************************************************************************)
EXTENDS Integers, FiniteSets, Sequences, TLC

VARIABLES
  cuts,      \* the AliCSPIDCuts instance
  prev,      \* the instance as it was before the latest SetCutAndParams call
  lastCall,  \* the latest SetCutAndParams call: its arguments and return value
  prevCall,  \* the SetCutAndParams call before the latest one
  nCalls,    \* number of SetCutAndParams calls made so far
  lastTrue,  \* the latest truth level call: its inputs and return value
  lastTrack, \* the latest IsTrackAccepted call: its inputs and return value
  lastInit,  \* the latest InitCuts call: its environment and how it ended
  lastNotify,\* the latest NotifyRun call: the global period and what it did
  tally      \* the calls counted so far: IsTrackAccepted calls, their
             \* results, and NotifyRun calls

vars == <<cuts, prev, lastCall, prevCall, nCalls, lastTrue, lastTrack,
          lastInit, lastNotify, tally>>

(***************************************************************************)
(* Bounds of the model.                                                    *)
(***************************************************************************)
MaxCalls == 3

\* SetCutAndParams calls of a run that configures the TPC+TOF cut
MaxCombinedCalls == 5

\* IsTrackAccepted calls of a run with QA histograms
MaxTracks == 2

\* NotifyRun calls of a run
MaxNotify == 2

(***************************************************************************)
(* AliPID::EParticleType                                                   *)
(***************************************************************************)
kElectron == 0
kMuon == 1
kPion == 2
kKaon == 3
kProton == 4
kUnknown == 14

\* the species that index the per species arrays and masks
Species == {kElectron, kMuon, kPion, kKaon, kProton}

(***************************************************************************)
(* The cut categories, bits of fCutsEnabledMask.                           *)
(***************************************************************************)
kITSdEdxSigmaCut == 0
kTPCdEdxSigmaCut == 1
kTOFSigmaCut == 2
kTPCTOF2DSigmaCut == 3
kNCuts == 4

(***************************************************************************)
(* cutsParametersIds, in the order of the switch of SetCutAndParams.       *)
(***************************************************************************)
kPMinCutParam == 0
kPMaxCutParam == 1
kITSdEdxSigmaCutParam_e == 2
kITSdEdxSigmaCutParam_mu == 3
kITSdEdxSigmaCutParam_pi == 4
kITSdEdxSigmaCutParam_k == 5
kITSdEdxSigmaCutParam_p == 6
kTPCdEdxSigmaCutParam_e == 7
kTPCdEdxSigmaCutParam_mu == 8
kTPCdEdxSigmaCutParam_pi == 9
kTPCdEdxSigmaCutParam_k == 10
kTPCdEdxSigmaCutParam_p == 11
kTOFSigmaCutParam_e == 12
kTOFSigmaCutParam_mu == 13
kTOFSigmaCutParam_pi == 14
kTOFSigmaCutParam_k == 15
kTOFSigmaCutParam_p == 16
kTPCTOFCutParam == 17
kNCutsParameters == 18

(***************************************************************************)
(* AliCSAnalysisCutsBase::QALevel                                          *)
(***************************************************************************)
kQALevelNone == 0
kQALevelLight == 1
kQALevelHeavy == 2

\* AliCSAnalysisCutsBase::ProdPeriods: no period seen yet
kNoPeriod == 0

(***************************************************************************)
(* Construction.                                                           *)
(***************************************************************************)

\* A null pointer
NULL == [null |-> TRUE]

\* A member array initialised with a one element brace list: the first
\* element takes the value, the remaining ones are value initialised (0.0).
BraceInit(first) == [s \in Species |-> IF s = kElectron THEN first ELSE 0]

\* AliCSTrackCutsBase(kNCuts, kNCutsParameters, name, title): the parameter
\* store starts with every parameter at zero.
BaseParameters == [i \in 0..(kNCutsParameters - 1) |-> 0]

\* The cuts string: the stored parameters printed one after the other.
CutsStringOf(parameters) == [i \in 1..kNCutsParameters |-> parameters[i - 1]]

\* A pair of histogram pointers, "before" (0) and "after" (1), both null
NullHistograms == [i \in 0..1 |-> NULL]

\* The members of the base class are as its constructor leaves them: QA level
\* none, no period seen, no histograms list.
AliCSPIDCuts(target) ==
  [ fMinP |-> 0,
    fMaxP |-> 99990,
    fTOFRequired |-> FALSE,
    fTPCTOF2Dcut |-> FALSE,
    fITSnSigmaAbove |-> BraceInit(1000),
    fITSnSigmaBelow |-> BraceInit(-1000),
    fTPCnSigmaAbove |-> BraceInit(1000),
    fTPCnSigmaBelow |-> BraceInit(-1000),
    fTOFnSigmaAbove |-> BraceInit(1000),
    fTOFnSigmaBelow |-> BraceInit(-1000),
    fCutsEnabledMask |-> {},
    fCutsActivatedMask |-> {},
    fITSEnabledSpeciesMask |-> {},
    fTPCEnabledSpeciesMask |-> {},
    fTOFEnabledSpeciesMask |-> {},
    fTPCTOF2DEnabledSpeciesMask |-> {},
    fPIDResponse |-> NULL,
    fTargetSpecies |-> target,
    fhCutsStatistics |-> NULL,
    fhCutsCorrelation |-> NULL,
    fhITSdEdxSigmaVsP |-> NullHistograms,
    fhITSdEdxSignalVsP |-> NullHistograms,
    fhTPCdEdxSigmaVsP |-> NullHistograms,
    fhTPCdEdxSignalVsP |-> NullHistograms,
    fhTOFSigmaVsP |-> NullHistograms,
    fhTOFSignalVsP |-> NullHistograms,
    fhTPCTOFSigma |-> NullHistograms,
    fQALevel |-> kQALevelNone,
    fDataPeriod |-> kNoPeriod,
    fHistogramsList |-> NULL,
    fParameters |-> BaseParameters,
    fCutsString |-> CutsStringOf(BaseParameters) ]

(***************************************************************************)
(* The momentum window.                                                    *)
(***************************************************************************)

\* Faulty variant: the code itself, in tenths of GeV/c, and not the code plus one
SetPMin_CodeOverTen(this, pcode) ==
  CASE pcode = 0 -> [this |-> [this EXCEPT !.fMinP = 0], ret |-> TRUE]
    [] pcode \in 1..9 -> [this |-> [this EXCEPT !.fMinP = pcode], ret |-> TRUE]
    [] OTHER -> [this |-> this, ret |-> FALSE]

SetPMin(this, pcode) ==
  CASE pcode = 0 -> [this |-> [this EXCEPT !.fMinP = 0], ret |-> TRUE]
    [] pcode \in 1..9 -> [this |-> [this EXCEPT !.fMinP = pcode + 1], ret |-> TRUE]
    [] OTHER -> [this |-> this, ret |-> FALSE]

\* Faulty variant: the codes 6, 7 and 8 go on in steps of 0.1 GeV/c
SetPMax_SmallSteps(this, pcode) ==
  CASE pcode = 0 -> [this |-> [this EXCEPT !.fMaxP = 10000000], ret |-> TRUE]
    [] pcode \in 1..8 -> [this |-> [this EXCEPT !.fMaxP = pcode + 2], ret |-> TRUE]
    [] OTHER -> [this |-> this, ret |-> FALSE]

SetPMax(this, pcode) ==
  CASE pcode = 0 -> [this |-> [this EXCEPT !.fMaxP = 10000000], ret |-> TRUE]
    [] pcode = 1 -> [this |-> [this EXCEPT !.fMaxP = 3], ret |-> TRUE]
    [] pcode = 2 -> [this |-> [this EXCEPT !.fMaxP = 4], ret |-> TRUE]
    [] pcode = 3 -> [this |-> [this EXCEPT !.fMaxP = 5], ret |-> TRUE]
    [] pcode = 4 -> [this |-> [this EXCEPT !.fMaxP = 6], ret |-> TRUE]
    [] pcode = 5 -> [this |-> [this EXCEPT !.fMaxP = 7], ret |-> TRUE]
    [] pcode = 6 -> [this |-> [this EXCEPT !.fMaxP = 20], ret |-> TRUE]
    [] pcode = 7 -> [this |-> [this EXCEPT !.fMaxP = 30], ret |-> TRUE]
    [] pcode = 8 -> [this |-> [this EXCEPT !.fMaxP = 40], ret |-> TRUE]
    [] OTHER -> [this |-> this, ret |-> FALSE]

(***************************************************************************)
(* The n-sigma bands.                                                      *)
(***************************************************************************)

\* Faulty variant: flips the bit instead of setting it
SetBitNumber_Flips(mask, bit) ==
  IF bit \in mask THEN mask \ {bit} ELSE mask \cup {bit}

\* Faulty variant: leaves the bit as it is
ResetBitNumber_KeepsBit(mask, bit) == mask

\* TBits::SetBitNumber / ResetBitNumber on a mask kept as a set of bit numbers
SetBitNumber(mask, bit) == mask \cup {bit}

ResetBitNumber(mask, bit) == mask \ {bit}

\* Faulty variant: enables the category and never disables it again
UpdateCutsEnabledMask_NeverDisables(enabled, cut, speciesMask) ==
  IF Cardinality(speciesMask) > 0 THEN enabled \cup {cut} ELSE enabled

\* The tail of every band setter: the category is enabled when the species
\* mask of the detector has at least one bit set, and disabled otherwise.
UpdateCutsEnabledMask(enabled, cut, speciesMask) ==
  IF Cardinality(speciesMask) > 0
    THEN SetBitNumber(enabled, cut)
    ELSE ResetBitNumber(enabled, cut)

\* <<n sigma below, n sigma above>> of the ITS code; <<>> when not supported
ITSdEdxSigmaBand(dEdxCode) ==
  CASE dEdxCode = 0 -> <<-1000, 1000>>
    [] dEdxCode = 1 -> <<-100, 100>>
    [] dEdxCode = 2 -> <<-60, 70>>
    [] dEdxCode = 3 -> <<-50, 50>>
    [] dEdxCode = 4 -> <<-40, 50>>
    [] dEdxCode = 5 -> <<-30, 50>>
    [] dEdxCode = 6 -> <<-40, 40>>
    [] dEdxCode = 7 -> <<-25, 40>>
    [] dEdxCode = 8 -> <<-20, 35>>
    [] OTHER -> <<>>

SetITSdEdxSigmaCut(this, id, dEdxCode) ==
  LET band == ITSdEdxSigmaBand(dEdxCode)
      mask == IF dEdxCode = 0
                THEN ResetBitNumber(this.fITSEnabledSpeciesMask, id)
                ELSE SetBitNumber(this.fITSEnabledSpeciesMask, id)
  IN IF band = <<>>
       THEN [this |-> this, ret |-> FALSE]
       ELSE [this |-> [this EXCEPT
                         !.fITSEnabledSpeciesMask = mask,
                         !.fITSnSigmaBelow[id] = band[1],
                         !.fITSnSigmaAbove[id] = band[2],
                         !.fCutsEnabledMask =
                            UpdateCutsEnabledMask(@, kITSdEdxSigmaCut, mask)],
             ret |-> TRUE]

\* Faulty variant: the rows of the ITS table for the codes the two tables share
TPCdEdxSigmaBand_ITSRows(dEdxCode) ==
  IF dEdxCode = 9 THEN <<-20, 30>> ELSE ITSdEdxSigmaBand(dEdxCode)

\* <<n sigma below, n sigma above>> of the TPC code; <<>> when not supported
TPCdEdxSigmaBand(dEdxCode) ==
  CASE dEdxCode = 0 -> <<-1000, 1000>>
    [] dEdxCode = 1 -> <<-100, 100>>
    [] dEdxCode = 2 -> <<-60, 70>>
    [] dEdxCode = 3 -> <<-50, 50>>
    [] dEdxCode = 4 -> <<-40, 50>>
    [] dEdxCode = 5 -> <<-40, 40>>
    [] dEdxCode = 6 -> <<-30, 40>>
    [] dEdxCode = 7 -> <<-30, 30>>
    [] dEdxCode = 8 -> <<-30, 50>>
    [] dEdxCode = 9 -> <<-20, 30>>
    [] OTHER -> <<>>

\* Faulty variant: a species disabled in the TPC is taken out of the species
\* mask of the TPC+TOF cut as well
SetTPCdEdxSigmaCut_Updates2DMask(this, id, dEdxCode) ==
  LET band == TPCdEdxSigmaBand(dEdxCode)
      mask == IF dEdxCode = 0
                THEN ResetBitNumber(this.fTPCEnabledSpeciesMask, id)
                ELSE SetBitNumber(this.fTPCEnabledSpeciesMask, id)
  IN IF band = <<>>
       THEN [this |-> this, ret |-> FALSE]
       ELSE [this |-> [this EXCEPT
                         !.fTPCEnabledSpeciesMask = mask,
                         !.fTPCnSigmaBelow[id] = band[1],
                         !.fTPCnSigmaAbove[id] = band[2],
                         !.fTPCTOF2DEnabledSpeciesMask = @ \cap mask,
                         !.fCutsEnabledMask =
                            UpdateCutsEnabledMask(@, kTPCdEdxSigmaCut, mask)],
             ret |-> TRUE]

SetTPCdEdxSigmaCut(this, id, dEdxCode) ==
  LET band == TPCdEdxSigmaBand(dEdxCode)
      mask == IF dEdxCode = 0
                THEN ResetBitNumber(this.fTPCEnabledSpeciesMask, id)
                ELSE SetBitNumber(this.fTPCEnabledSpeciesMask, id)
  IN IF band = <<>>
       THEN [this |-> this, ret |-> FALSE]
       ELSE [this |-> [this EXCEPT
                         !.fTPCEnabledSpeciesMask = mask,
                         !.fTPCnSigmaBelow[id] = band[1],
                         !.fTPCnSigmaAbove[id] = band[2],
                         !.fCutsEnabledMask =
                            UpdateCutsEnabledMask(@, kTPCdEdxSigmaCut, mask)],
             ret |-> TRUE]

\* <<n sigma below, n sigma above>> of the TOF code; <<>> when not supported
TOFSigmaBand(tofcode) ==
  CASE tofcode = 0 -> <<-1000, 1000>>
    [] tofcode = 1 -> <<-70, 70>>
    [] tofcode = 2 -> <<-50, 50>>
    [] tofcode = 3 -> <<-30, 50>>
    [] tofcode = 4 -> <<-20, 30>>
    [] tofcode = 5 -> <<-30, 30>>
    [] OTHER -> <<>>

SetTOFSigmaCut(this, id, tofcode) ==
  LET band == TOFSigmaBand(tofcode)
      mask == IF tofcode = 0
                THEN ResetBitNumber(this.fTOFEnabledSpeciesMask, id)
                ELSE SetBitNumber(this.fTOFEnabledSpeciesMask, id)
  IN IF band = <<>>
       THEN [this |-> this, ret |-> FALSE]
       ELSE [this |-> [this EXCEPT
                         !.fTOFEnabledSpeciesMask = mask,
                         !.fTOFnSigmaBelow[id] = band[1],
                         !.fTOFnSigmaAbove[id] = band[2],
                         !.fCutsEnabledMask =
                            UpdateCutsEnabledMask(@, kTOFSigmaCut, mask)],
             ret |-> TRUE]

(***************************************************************************)
(* The TPC+TOF configuration.                                              *)
(***************************************************************************)

\* Faulty variant: the species of either detector instead of the common ones
TPCTOF2DMaskOf_EitherDetector(this, tpctofcode) ==
  IF tpctofcode \in {2, 3}
    THEN this.fTPCEnabledSpeciesMask \cup this.fTOFEnabledSpeciesMask
    ELSE {}

\* The species mask of the 2D cut that the code leaves for a supported code
TPCTOF2DMaskOf(this, tpctofcode) ==
  IF tpctofcode \in {2, 3}
    THEN this.fTPCEnabledSpeciesMask \cap this.fTOFEnabledSpeciesMask
    ELSE {}

\* The TOF presence requirement that the code leaves for a supported code
TOFRequiredOf(tpctofcode) == tpctofcode \in {1, 3}

\* (no case of the switch assigns fTPCTOF2Dcut)
SetTPCTOFCut(this, tpctofcode) ==
  IF tpctofcode \notin {0, 1, 2, 3}
    THEN [this |-> this, ret |-> FALSE]
    ELSE LET mask == TPCTOF2DMaskOf(this, tpctofcode)
         IN [this |-> [this EXCEPT
                         !.fTPCTOF2DEnabledSpeciesMask = mask,
                         !.fTOFRequired = TOFRequiredOf(tpctofcode),
                         !.fCutsEnabledMask =
                            UpdateCutsEnabledMask(@, kTPCTOF2DSigmaCut, mask)],
             ret |-> TRUE]

(***************************************************************************)
(* The configuration facade.                                               *)
(***************************************************************************)

\* AliCSAnalysisCutsBase::UpdateCutsString
UpdateCutsString(this) ==
  [this EXCEPT !.fCutsString = CutsStringOf(this.fParameters)]

\* Faulty variant: stores the value whatever the setter returned
StoreParameter_StoresAlways(r, paramID, value) ==
  [this |-> UpdateCutsString([r.this EXCEPT !.fParameters[paramID] = value]),
   ret |-> r.ret]

\* What every case of SetCutAndParams does with the result r of its setter
StoreParameter(r, paramID, value) ==
  IF r.ret
    THEN [this |-> UpdateCutsString([r.this EXCEPT !.fParameters[paramID] = value]),
          ret |-> TRUE]
    ELSE [this |-> r.this, ret |-> FALSE]

SetCutAndParams(this, paramID, value) ==
  CASE paramID = kPMinCutParam ->
         StoreParameter(SetPMin(this, value), paramID, value)
    [] paramID = kPMaxCutParam ->
         StoreParameter(SetPMax(this, value), paramID, value)
    [] paramID = kITSdEdxSigmaCutParam_e ->
         StoreParameter(SetITSdEdxSigmaCut(this, kElectron, value), paramID, value)
    [] paramID = kITSdEdxSigmaCutParam_mu ->
         StoreParameter(SetITSdEdxSigmaCut(this, kMuon, value), paramID, value)
    [] paramID = kITSdEdxSigmaCutParam_pi ->
         StoreParameter(SetITSdEdxSigmaCut(this, kPion, value), paramID, value)
    [] paramID = kITSdEdxSigmaCutParam_k ->
         StoreParameter(SetITSdEdxSigmaCut(this, kKaon, value), paramID, value)
    [] paramID = kITSdEdxSigmaCutParam_p ->
         StoreParameter(SetITSdEdxSigmaCut(this, kProton, value), paramID, value)
    [] paramID = kTPCdEdxSigmaCutParam_e ->
         StoreParameter(SetTPCdEdxSigmaCut(this, kElectron, value), paramID, value)
    [] paramID = kTPCdEdxSigmaCutParam_mu ->
         StoreParameter(SetTPCdEdxSigmaCut(this, kMuon, value), paramID, value)
    [] paramID = kTPCdEdxSigmaCutParam_pi ->
         StoreParameter(SetTPCdEdxSigmaCut(this, kPion, value), paramID, value)
    [] paramID = kTPCdEdxSigmaCutParam_k ->
         StoreParameter(SetTPCdEdxSigmaCut(this, kKaon, value), paramID, value)
    [] paramID = kTPCdEdxSigmaCutParam_p ->
         StoreParameter(SetTPCdEdxSigmaCut(this, kProton, value), paramID, value)
    [] paramID = kTOFSigmaCutParam_e ->
         StoreParameter(SetTOFSigmaCut(this, kElectron, value), paramID, value)
    [] paramID = kTOFSigmaCutParam_mu ->
         StoreParameter(SetTOFSigmaCut(this, kMuon, value), paramID, value)
    [] paramID = kTOFSigmaCutParam_pi ->
         StoreParameter(SetTOFSigmaCut(this, kPion, value), paramID, value)
    [] paramID = kTOFSigmaCutParam_k ->
         StoreParameter(SetTOFSigmaCut(this, kKaon, value), paramID, value)
    [] paramID = kTOFSigmaCutParam_p ->
         StoreParameter(SetTOFSigmaCut(this, kProton, value), paramID, value)
    [] paramID = kTPCTOFCutParam ->
         StoreParameter(SetTPCTOFCut(this, value), paramID, value)
    [] OTHER -> [this |-> this, ret |-> FALSE]

(***************************************************************************)
(* The truth level acceptance.                                             *)
(***************************************************************************)

\* Particle codes of TPDGCode.h
pdgElectron == 11
pdgPositron == -11
pdgProton == 2212
pdgProtonBar == -2212
pdgMuonPlus == -13
pdgMuonMinus == 13
pdgPiPlus == 211
pdgPiMinus == -211
pdgKPlus == 321
pdgKMinus == -321

\* Faulty variant: the antiparticles are not listed
GetTrueSpecies_ParticlesOnly(par) ==
  CASE par.PdgCode = pdgElectron -> kElectron
    [] par.PdgCode = pdgProton -> kProton
    [] par.PdgCode = pdgMuonMinus -> kMuon
    [] par.PdgCode = pdgPiPlus -> kPion
    [] par.PdgCode = pdgKPlus -> kKaon
    [] OTHER -> kUnknown

\* GetTrueSpecies(AliVParticle*)
GetTrueSpecies(par) ==
  CASE par.PdgCode \in {pdgPositron, pdgElectron} -> kElectron
    [] par.PdgCode \in {pdgProton, pdgProtonBar} -> kProton
    [] par.PdgCode \in {pdgMuonPlus, pdgMuonMinus} -> kMuon
    [] par.PdgCode \in {pdgPiPlus, pdgPiMinus} -> kPion
    [] par.PdgCode \in {pdgKPlus, pdgKMinus} -> kKaon
    [] OTHER -> kUnknown

\* Faulty variant: the edges of the window are out of range
InMomentumRange_EdgesOut(this, p) == ~(p <= this.fMinP \/ this.fMaxP <= p)

\* "if not in the momentum range it is not recognized"
InMomentumRange(this, p) == ~(p < this.fMinP \/ this.fMaxP < p)

\* The test on the four categories of fCutsEnabledMask
AnyCutEnabled(this) ==
  \/ kITSdEdxSigmaCut \in this.fCutsEnabledMask
  \/ kTPCdEdxSigmaCut \in this.fCutsEnabledMask
  \/ kTOFSigmaCut \in this.fCutsEnabledMask
  \/ kTPCTOF2DSigmaCut \in this.fCutsEnabledMask

\* The truth container of the event: the MC event of the ESD case and the MC
\* array of the AOD case, both addressed by the track label.  An index without
\* an entry gives a null pointer.
GetParticle(mc, itrk) == IF itrk \in DOMAIN mc THEN mc[itrk] ELSE NULL

\* IsTrueTrackAccepted(Int_t): the ESD and the AOD branch
IsTrueTrackAcceptedIndex(this, itrk, mc, fgIsESD) ==
  LET particle == GetParticle(mc, itrk)
  IN IF fgIsESD
       THEN IF particle = NULL THEN FALSE
            ELSE IF ~InMomentumRange(this, particle.P) THEN FALSE
            ELSE IF AnyCutEnabled(this) /\ GetTrueSpecies(particle) # this.fTargetSpecies
              THEN FALSE
            ELSE TRUE
       ELSE IF particle = NULL THEN FALSE
            ELSE IF ~InMomentumRange(this, particle.P) THEN FALSE
            ELSE IF AnyCutEnabled(this) /\ GetTrueSpecies(particle) # this.fTargetSpecies
              THEN FALSE
            ELSE TRUE

\* Faulty variant: looks the ghost track up by the absolute value of its label
IsTrueTrackAccepted_AbsLabel(this, label, mc, fgIsESD) ==
  IsTrueTrackAcceptedIndex(this, IF label < 0 THEN -label ELSE label, mc, fgIsESD)

\* IsTrueTrackAccepted(AliVTrack*): "reject ghost tracks"
IsTrueTrackAccepted(this, label, mc, fgIsESD) ==
  IF label < 0 THEN FALSE ELSE IsTrueTrackAcceptedIndex(this, label, mc, fgIsESD)

(***************************************************************************)
(* The track level acceptance.                                             *)
(*                                                                         *)
(* A track is [ID, P, nSigmaITS, nSigmaTPC, nSigmaTOF, TOFin, TOFmismatch]:*)
(* the n sigma fields are what the PID response gives for the track that   *)
(* holds the PID information (the track itself, or the original track of   *)
(* a constrained one), per species.                                        *)
(***************************************************************************)

\* Faulty variant: the bounds belong to the acceptance band and not to the
\* separation band
BandTest_BoundsInside(this, id, below, above, nSigma) ==
  IF id = this.fTargetSpecies
    THEN below <= nSigma /\ nSigma <= above
    ELSE nSigma <= below \/ above <= nSigma

\* The band of one species: an acceptance band for the target species, a
\* separation band for any other species.
BandTest(this, id, below, above, nSigma) ==
  IF id = this.fTargetSpecies
    THEN below < nSigma /\ nSigma < above
    ELSE nSigma < below \/ above < nSigma

\* The 2D test of one species: inside the circle for the target species,
\* outside of it for any other species.
Ellipse2DTest(this, id, above, nSigmaTPC, nSigmaTOF) ==
  LET norm2 == nSigmaTPC * nSigmaTPC + nSigmaTOF * nSigmaTOF
  IN IF id = this.fTargetSpecies
       THEN norm2 < above * above
       ELSE norm2 > above * above

\* The track has a usable TOF hit
TOFHitValid(trk) == trk.TOFin /\ ~trk.TOFmismatch

ITSdEdxSigmaTest(this, trk) ==
  \A id \in this.fITSEnabledSpeciesMask :
    BandTest(this, id, this.fITSnSigmaBelow[id], this.fITSnSigmaAbove[id],
             trk.nSigmaITS[id])

TPCdEdxSigmaTest(this, trk, mask) ==
  \A id \in mask :
    BandTest(this, id, this.fTPCnSigmaBelow[id], this.fTPCnSigmaAbove[id],
             trk.nSigmaTPC[id])

TOFSigmaTest(this, trk, mask) ==
  \A id \in mask :
    BandTest(this, id, this.fTOFnSigmaBelow[id], this.fTOFnSigmaAbove[id],
             trk.nSigmaTOF[id])

TPCTOF2DTest(this, trk) ==
  IF this.fTPCTOF2Dcut
    THEN \A id \in this.fTPCTOF2DEnabledSpeciesMask :
           Ellipse2DTest(this, id, this.fTPCnSigmaAbove[id],
                         trk.nSigmaTPC[id], trk.nSigmaTOF[id])
    ELSE /\ TPCdEdxSigmaTest(this, trk, this.fTPCTOF2DEnabledSpeciesMask)
         /\ TOFSigmaTest(this, trk, this.fTPCTOF2DEnabledSpeciesMask)

\* The categories that are evaluated for the track
ActivatedCuts(this, trk) ==
  {c \in this.fCutsEnabledMask :
     c \in {kTOFSigmaCut, kTPCTOF2DSigmaCut} => TOFHitValid(trk)}

\* accept(AliVTrack*): the decision itself
accept(this, trk) ==
  LET activated == ActivatedCuts(this, trk)
      passed ==
        /\ InMomentumRange(this, trk.P)
        /\ kITSdEdxSigmaCut \in activated => ITSdEdxSigmaTest(this, trk)
        /\ kTPCdEdxSigmaCut \in activated =>
             TPCdEdxSigmaTest(this, trk, this.fTPCEnabledSpeciesMask)
        /\ kTOFSigmaCut \in activated =>
             TOFSigmaTest(this, trk, this.fTOFEnabledSpeciesMask)
        /\ kTPCTOF2DSigmaCut \in activated => TPCTOF2DTest(this, trk)
        /\ this.fTOFRequired => TOFHitValid(trk)
  IN [this |-> [this EXCEPT !.fCutsActivatedMask = activated], ret |-> passed]

(***************************************************************************)
(* The QA histograms.                                                      *)
(*                                                                         *)
(* fhCutsStatistics is kept as the contents of its labelled bins, the      *)
(* correlation histogram as the contents of its (cut, cut) bins, and every *)
(* other histogram as its number of entries.                               *)
(***************************************************************************)

NewCutsStatistics ==
  [nTracks |-> 0, nCutTracks |-> 0, cut |-> [i \in 0..(kNCuts - 1) |-> 0]]

NewCutsCorrelation == [b \in (0..(kNCuts - 1)) \X (0..(kNCuts - 1)) |-> 0]

\* A pair of histograms, "before" (0) and "after" (1), newly allocated
NewHistograms == [i \in 0..1 |-> 0]

\* TList::Add of n objects
ListAdd(list, n) == [list EXCEPT !.entries = @ + n]

\* The environment of InitCuts: the analysis manager (null, or with its input
\* handler), the input handler (null, or with its PID response), the PID
\* response (null or there), and AliCSAnalysisCutsBase::IsOnTheFlyMC().
PIDResponse == [null |-> FALSE]

Managers ==
  {NULL, [inputHandler |-> NULL]}
    \cup {[inputHandler |-> [PIDResponse |-> r]] : r \in {NULL, PIDResponse}}

\* "if we need PID response instance and it is not there we cannot continue"
NeedsPIDResponse(this) ==
  \/ kITSdEdxSigmaCut \in this.fCutsEnabledMask
  \/ kTPCdEdxSigmaCut \in this.fCutsEnabledMask
  \/ kTOFSigmaCut \in this.fCutsEnabledMask
  \/ kTPCTOF2DSigmaCut \in this.fCutsEnabledMask

\* InitCuts(name).  ended is "done" when the call returns, "fatal" when it
\* stops in AliFatal, and "fault" when it reads through a null input handler.
InitCuts(this, manager, isOnTheFlyMC) ==
  IF manager = NULL
    THEN [this |-> this, ended |-> "fatal"]
  ELSE IF manager.inputHandler = NULL
    THEN [this |-> this, ended |-> "fault"]
  ELSE
    LET got == [this EXCEPT !.fPIDResponse = manager.inputHandler.PIDResponse]
    IN IF ~isOnTheFlyMC /\ got.fPIDResponse = NULL /\ NeedsPIDResponse(got)
         THEN [this |-> got, ended |-> "fatal"]
         ELSE IF got.fQALevel > kQALevelNone
           THEN [this |-> [got EXCEPT !.fHistogramsList = [entries |-> 0]],
                 ended |-> "done"]
           ELSE [this |-> got, ended |-> "done"]

\* DefineHistograms(): allocates the histograms anew and adds them to the list
DefineHistograms(this) ==
  IF this.fQALevel > kQALevelNone
    THEN [this EXCEPT
            !.fhCutsStatistics = NewCutsStatistics,
            !.fhCutsCorrelation =
               IF this.fQALevel = kQALevelHeavy THEN NewCutsCorrelation ELSE @,
            !.fhITSdEdxSigmaVsP = NewHistograms,
            !.fhITSdEdxSignalVsP = NewHistograms,
            !.fhTPCdEdxSigmaVsP = NewHistograms,
            !.fhTPCdEdxSignalVsP = NewHistograms,
            !.fhTOFSigmaVsP = NewHistograms,
            !.fhTOFSignalVsP = NewHistograms,
            !.fhTPCTOFSigma = NewHistograms,
            !.fHistogramsList =
               ListAdd(@, IF this.fQALevel = kQALevelHeavy THEN 16 ELSE 15)]
    ELSE this

\* Faulty variant: allocates the histograms at every call
NotifyRun_Always(this, globalPeriod) ==
  [this |-> DefineHistograms([this EXCEPT !.fDataPeriod = globalPeriod]),
   defined |-> TRUE]

\* NotifyRun(), with the global period it reads; defined tells whether it
\* called DefineHistograms
NotifyRun(this, globalPeriod) ==
  IF globalPeriod # this.fDataPeriod
    THEN [this |-> DefineHistograms([this EXCEPT !.fDataPeriod = globalPeriod]),
          defined |-> TRUE]
    ELSE [this |-> this, defined |-> FALSE]

\* TH1::Fill on a bin or on a histogram kept as its number of entries
Fill(n) == n + 1

\* The fill of fhCutsStatistics and fhCutsCorrelation for one track
FillCutsStatistics(this, accepted) ==
  [this EXCEPT
     !.fhCutsStatistics =
        [ nTracks |-> Fill(@.nTracks),
          nCutTracks |-> IF ~accepted THEN Fill(@.nCutTracks) ELSE @.nCutTracks,
          cut |-> [i \in 0..(kNCuts - 1) |->
                     IF i \in this.fCutsActivatedMask
                       THEN Fill(@.cut[i]) ELSE @.cut[i]] ],
     !.fhCutsCorrelation =
        IF this.fQALevel > kQALevelLight
          THEN [b \in DOMAIN @ |->
                  IF /\ b[1] <= b[2]
                     /\ b[1] \in this.fCutsActivatedMask
                     /\ b[2] \in this.fCutsActivatedMask
                    THEN Fill(@[b]) ELSE @[b]]
          ELSE @]

\* Faulty variant: the "after" histograms are filled for a rejected track too
FilledBuckets_NoBreak(this, accepted) ==
  {i \in 0..1 : i = 1 \/ this.fQALevel > kQALevelLight}

\* The passes of the loop over "before" (0) and "after" (1) that fill: the
\* loop is left after its first pass when the track is not accepted
FilledBuckets(this, accepted) ==
  {i \in 0..1 : /\ i = 1 \/ this.fQALevel > kQALevelLight
                /\ i = 1 => accepted}

\* The fills of one pass of the loop, for the track with the PID information
FillBucket(this, trk, i) ==
  LET its == [this EXCEPT
                !.fhITSdEdxSigmaVsP[i] = Fill(@),
                !.fhITSdEdxSignalVsP[i] = Fill(@),
                !.fhTPCdEdxSigmaVsP[i] = Fill(@),
                !.fhTPCdEdxSignalVsP[i] = Fill(@)]
  IN IF TOFHitValid(trk)
       THEN [its EXCEPT
               !.fhTOFSigmaVsP[i] = Fill(@),
               !.fhTOFSignalVsP[i] = Fill(@),
               !.fhTPCTOFSigma[i] = Fill(@)]
       ELSE its

FillBuckets(this, trk, buckets) ==
  LET before == IF 0 \in buckets THEN FillBucket(this, trk, 0) ELSE this
  IN IF 1 \in buckets THEN FillBucket(before, trk, 1) ELSE before

\* IsTrackAccepted(AliVTrack*, float*).  fault tells that the call read
\* through a null fPIDResponse while it filled the histograms: it does not
\* get past that read.  (The n sigma values that accept compares are fields
\* of the track.)
IsTrackAccepted(this, ttrk) ==
  LET a == accept(this, ttrk)
  IN IF ~(a.this.fQALevel > kQALevelNone)
       THEN [this |-> a.this, ret |-> a.ret, fault |-> FALSE]
       ELSE LET counted == FillCutsStatistics(a.this, a.ret)
                buckets == FilledBuckets(a.this, a.ret)
            IN IF buckets # {} /\ counted.fPIDResponse = NULL
                 THEN [this |-> counted, ret |-> a.ret, fault |-> TRUE]
                 ELSE [this |-> FillBuckets(counted, ttrk, buckets),
                       ret |-> a.ret, fault |-> FALSE]

(***************************************************************************)
(* The state machine.                                                      *)
(*                                                                         *)
(* The cuts are configured first, parameter by parameter, and tracks are   *)
(* evaluated afterwards.  The analysis task sets the QA level before it    *)
(* initializes the cuts, initializes them before it notifies a run, and    *)
(* notifies the run before the tracks of the run are evaluated.            *)
(***************************************************************************)

NoCall == [op |-> "none"]

\* tracks, returnedFalse and returnedTrue count the IsTrackAccepted calls made
\* since the histograms were allocated; calls and notifies count all the
\* IsTrackAccepted and NotifyRun calls
NoTally ==
  [tracks |-> 0, returnedFalse |-> 0, returnedTrue |-> 0, calls |-> 0,
   notifies |-> 0]

\* InitCuts has returned
Initialized == lastInit # NoCall /\ lastInit.ended = "done"

\* The process has ended: in AliFatal, or on a read through a null pointer
Stopped ==
  \/ lastInit # NoCall /\ lastInit.ended # "done"
  \/ lastTrack # NoCall /\ lastTrack.fault

\* The targets the cuts are constructed for
Targets == {kPion}

Init ==
  /\ \E target \in Targets : cuts = AliCSPIDCuts(target)
  /\ prev = cuts
  /\ lastCall = NoCall
  /\ prevCall = NoCall
  /\ nCalls = 0
  /\ lastTrue = NoCall
  /\ lastTrack = NoCall
  /\ lastInit = NoCall
  /\ lastNotify = NoCall
  /\ tally = NoTally

SetCutAndParamsCall(paramID, value) ==
  /\ lastTrue = NoCall
  /\ lastTrack = NoCall
  /\ ~Stopped
  /\ LET r == SetCutAndParams(cuts, paramID, value)
     IN /\ cuts' = r.this
        /\ lastCall' = [op |-> "SetCutAndParams", paramID |-> paramID,
                        value |-> value, ret |-> r.ret]
  /\ prev' = cuts
  /\ prevCall' = lastCall
  /\ nCalls' = nCalls + 1
  /\ UNCHANGED <<lastTrue, lastTrack, lastInit, lastNotify, tally>>

\* AliCSAnalysisCutsBase::SetQALevel, called while the task is set up
SetQALevel(this, level) == [this EXCEPT !.fQALevel = level]

SetQALevelCall(level) ==
  /\ lastInit = NoCall
  /\ lastTrack = NoCall
  /\ cuts' = SetQALevel(cuts, level)
  /\ UNCHANGED <<prev, lastCall, prevCall, nCalls, lastTrue, lastTrack,
                 lastInit, lastNotify, tally>>

InitCutsCall(manager, isOnTheFlyMC) ==
  /\ lastInit = NoCall
  /\ lastTrue = NoCall
  /\ lastTrack = NoCall
  /\ LET r == InitCuts(cuts, manager, isOnTheFlyMC)
     IN /\ cuts' = r.this
        /\ lastInit' = [op |-> "InitCuts", manager |-> manager,
                        isOnTheFlyMC |-> isOnTheFlyMC, ended |-> r.ended]
  /\ UNCHANGED <<prev, lastCall, prevCall, nCalls, lastTrue, lastTrack,
                 lastNotify, tally>>

\* NotifyRun() with the global period at globalPeriod.  The tracks are
\* counted anew when the histograms are allocated anew.
NotifyRunCall(globalPeriod) ==
  /\ Initialized
  /\ ~Stopped
  /\ tally.notifies < MaxNotify
  /\ LET r == NotifyRun(cuts, globalPeriod)
     IN /\ cuts' = r.this
        /\ lastNotify' = [op |-> "NotifyRun", globalPeriod |-> globalPeriod,
                          defined |-> r.defined, before |-> cuts,
                          after |-> r.this]
        /\ tally' = IF r.defined
                      THEN [NoTally EXCEPT !.notifies = tally.notifies + 1,
                                           !.calls = tally.calls]
                      ELSE [tally EXCEPT !.notifies = @ + 1]
  /\ UNCHANGED <<prev, lastCall, prevCall, nCalls, lastTrue, lastTrack, lastInit>>

\* The (paramID, value) pairs of the configuration runs: the momentum window,
\* the bands of pions and kaons in the three detectors, the TPC+TOF code, and
\* parameter ids out of the supported range.
CfgInputs ==
  ({kPMinCutParam} \X {-1, 0, 3})
    \cup ({kPMaxCutParam} \X {0, 1, 9})
    \cup ({kITSdEdxSigmaCutParam_pi, kITSdEdxSigmaCutParam_k,
           kTPCdEdxSigmaCutParam_pi, kTPCdEdxSigmaCutParam_k,
           kTOFSigmaCutParam_pi, kTOFSigmaCutParam_k} \X {0, 1, 9})
    \cup ({kTPCTOFCutParam} \X {0, 1, 2, 3, 4})
    \cup {<<-1, 0>>, <<kNCutsParameters, 1>>}

Configure ==
  /\ nCalls < MaxCalls
  /\ \E in \in CfgInputs : SetCutAndParamsCall(in[1], in[2])

Next == Configure

Spec == Init /\ [][Next]_vars

(***************************************************************************)
(* Configuration of the momentum window, with every code of the two        *)
(* tables and the codes next to them.                                      *)
(***************************************************************************)

MomentumCfgInputs ==
  ({kPMinCutParam} \X (-1..10)) \cup ({kPMaxCutParam} \X (-1..9))

ConfigureMomentum ==
  /\ nCalls < MaxCalls
  /\ \E in \in MomentumCfgInputs : SetCutAndParamsCall(in[1], in[2])

NextMomentum == ConfigureMomentum

SpecMomentum == Init /\ [][NextMomentum]_vars

(***************************************************************************)
(* Configuration of the TPC+TOF cut: the TPC and TOF bands of pions and    *)
(* kaons and the TPC+TOF code, in any order.                               *)
(***************************************************************************)

CombinedCfgInputs ==
  ({kTPCdEdxSigmaCutParam_pi, kTOFSigmaCutParam_pi} \X {0, 1})
    \cup {<<kTPCdEdxSigmaCutParam_k, 1>>, <<kTOFSigmaCutParam_k, 1>>}
    \cup ({kTPCTOFCutParam} \X {0, 2})

ConfigureCombined ==
  /\ nCalls < MaxCombinedCalls
  /\ \E in \in CombinedCfgInputs : SetCutAndParamsCall(in[1], in[2])

NextCombined == ConfigureCombined

SpecCombined == Init /\ [][NextCombined]_vars

(***************************************************************************)
(* Configuration of the bands: for pions the codes at the ends of the      *)
(* table of each detector and the codes next to them, for kaons one code   *)
(* per detector.                                                           *)
(***************************************************************************)

BandCfgInputs ==
  ({kITSdEdxSigmaCutParam_pi} \X {-1, 0, 1, 8, 9})
    \cup ({kTPCdEdxSigmaCutParam_pi} \X {-1, 0, 1, 9, 10})
    \cup ({kTOFSigmaCutParam_pi} \X {-1, 0, 1, 5, 6})
    \cup { <<kITSdEdxSigmaCutParam_k, 2>>, <<kTPCdEdxSigmaCutParam_k, 3>>,
           <<kTOFSigmaCutParam_k, 4>> }

ConfigureBand ==
  /\ nCalls < MaxCalls
  /\ \E in \in BandCfgInputs : SetCutAndParamsCall(in[1], in[2])

NextBand == ConfigureBand

SpecBand == Init /\ [][NextBand]_vars

(***************************************************************************)
(* Truth level evaluation.                                                 *)
(***************************************************************************)

TrueCfgInputs ==
  ({kPMinCutParam} \X {0, 3})
    \cup ({kPMaxCutParam} \X {0, 1, 3})
    \cup ({kTPCdEdxSigmaCutParam_pi, kTOFSigmaCutParam_k} \X {0, 1})

\* Truth momenta, in tenths of GeV/c, around the edges of the windows
TrueMomenta == {2, 3, 4, 5, 6, 99990, 99991}

\* two pions, a kaon and a photon (22), which GetTrueSpecies does not list
TruePdgCodes == {pdgPiPlus, pdgPiMinus, pdgKPlus, 22}

TrueParticles == [P : TrueMomenta, PdgCode : TruePdgCodes]

\* (label, truth container): tracks with a truth particle at index 0, a track
\* whose label has no truth particle, and a ghost track
TrueInputs ==
  { <<0, <<>>>>, <<-1, <<>>>> }
    \cup { <<1, <<par>>>> : par \in TrueParticles }
    \cup { <<-1, <<par>>>> : par \in {[P |-> 4, PdgCode |-> pdgPiPlus]} }

IsTrueTrackAcceptedCall(label, mc, fgIsESD) ==
  /\ lastTrue = NoCall
  /\ lastTrue' = [op |-> "IsTrueTrackAccepted", label |-> label, mc |-> mc,
                  fgIsESD |-> fgIsESD,
                  ret |-> IsTrueTrackAccepted(cuts, label, mc, fgIsESD)]
  /\ UNCHANGED <<cuts, prev, lastCall, prevCall, nCalls, lastTrack,
                 lastInit, lastNotify, tally>>

ConfigureTrue ==
  /\ nCalls < MaxCalls
  /\ \E in \in TrueCfgInputs : SetCutAndParamsCall(in[1], in[2])

EvaluateTrue ==
  \E in \in TrueInputs, fgIsESD \in BOOLEAN :
    IsTrueTrackAcceptedCall(in[1], in[2], fgIsESD)

NextTrue == ConfigureTrue \/ EvaluateTrue

SpecTrue == Init /\ [][NextTrue]_vars

(***************************************************************************)
(* Classification of truth particles.                                      *)
(***************************************************************************)

\* The ten codes of the switch, the codes next to them, and codes of other
\* particles: neutrinos, photon, neutral pion and kaons, neutron, Lambda, a
\* nucleus
SpeciesPdgCodes ==
  { pdgElectron, pdgPositron, pdgProton, pdgProtonBar, pdgMuonPlus,
    pdgMuonMinus, pdgPiPlus, pdgPiMinus, pdgKPlus, pdgKMinus }
    \cup { 0, 10, -10, 12, -12, 14, -14, 210, 212, -212, 320, 322, 2211, 2213 }
    \cup { 22, 111, 130, 310, 311, 2112, -2112, 3122, 1000010020 }

SpeciesParticles == [P : {2, 5}, PdgCode : SpeciesPdgCodes]

GetTrueSpeciesCall(par) ==
  /\ lastTrue = NoCall
  /\ lastTrue' = [op |-> "GetTrueSpecies", par |-> par, ret |-> GetTrueSpecies(par)]
  /\ UNCHANGED <<cuts, prev, lastCall, prevCall, nCalls, lastTrack,
                 lastInit, lastNotify, tally>>

ClassifyTrue == \E par \in SpeciesParticles : GetTrueSpeciesCall(par)

NextSpecies == ConfigureTrue \/ ClassifyTrue

SpecSpecies == Init /\ [][NextSpecies]_vars

(***************************************************************************)
(* Track level evaluation.                                                 *)
(***************************************************************************)

TrackCfgInputs ==
  { <<kPMinCutParam, 2>>,
    <<kITSdEdxSigmaCutParam_pi, 3>>, <<kITSdEdxSigmaCutParam_k, 3>>,
    <<kITSdEdxSigmaCutParam_k, 0>>,
    <<kTPCdEdxSigmaCutParam_pi, 3>>, <<kTOFSigmaCutParam_pi, 2>>,
    <<kTPCTOFCutParam, 1>> }

\* The n sigma values of a track for pions and kaons (0 for the others)
NSigmas(pi, k) ==
  [s \in Species |-> IF s = kPion THEN pi ELSE IF s = kKaon THEN k ELSE 0]

Tracks ==
  { [ID |-> 0, P |-> p,
     nSigmaITS |-> NSigmas(itspi, itsk),
     nSigmaTPC |-> NSigmas(tpcpi, 0),
     nSigmaTOF |-> NSigmas(tofpi, 0),
     TOFin |-> tofin, TOFmismatch |-> FALSE] :
       p \in {1, 5}, itspi \in {-51, -50, 0, 50, 51}, itsk \in {-50, 0, 51},
       tpcpi \in {0, 50}, tofpi \in {0, 50}, tofin \in BOOLEAN }

\* A call that faults does not return: it counts as a call and has no result
IsTrackAcceptedCall(ttrk) ==
  /\ Initialized
  /\ ~Stopped
  /\ cuts.fQALevel > kQALevelNone => cuts.fhCutsStatistics # NULL
  /\ LET r == IsTrackAccepted(cuts, ttrk)
     IN /\ cuts' = r.this
        /\ lastTrack' = [op |-> "IsTrackAccepted", ttrk |-> ttrk, ret |-> r.ret,
                         fault |-> r.fault]
        /\ tally' = [tally EXCEPT
                       !.tracks = @ + 1,
                       !.calls = @ + 1,
                       !.returnedFalse = IF ~r.fault /\ ~r.ret THEN @ + 1 ELSE @,
                       !.returnedTrue = IF ~r.fault /\ r.ret THEN @ + 1 ELSE @]
  /\ UNCHANGED <<prev, lastCall, prevCall, nCalls, lastTrue, lastInit, lastNotify>>

ConfigureTrack ==
  /\ nCalls < MaxCalls
  /\ \E in \in TrackCfgInputs : SetCutAndParamsCall(in[1], in[2])

\* The cuts are initialized in a task with a PID response
InitCutsTrack ==
  InitCutsCall([inputHandler |-> [PIDResponse |-> PIDResponse]], FALSE)

EvaluateTrack == lastTrack = NoCall /\ \E ttrk \in Tracks : IsTrackAcceptedCall(ttrk)

NextTrack == ConfigureTrack \/ InitCutsTrack \/ EvaluateTrack

SpecTrack == Init /\ [][NextTrack]_vars

(***************************************************************************)
(* The life of the cuts in the analysis task: configuration, QA level,     *)
(* InitCuts, NotifyRun and the tracks of the run.                          *)
(***************************************************************************)

QACfgInputs == { <<kTPCdEdxSigmaCutParam_pi, 3>> }

QALevels == {kQALevelNone, kQALevelLight, kQALevelHeavy}

\* Two data periods, both different from kNoPeriod
Periods == {1, 2}

\* Tracks inside and on the edge of the TPC band of pions, with and without
\* a TOF hit
QATracks ==
  { [ID |-> 0, P |-> 5,
     nSigmaITS |-> NSigmas(0, 0),
     nSigmaTPC |-> NSigmas(tpcpi, 0),
     nSigmaTOF |-> NSigmas(0, 0),
     TOFin |-> tofin, TOFmismatch |-> FALSE] :
       tpcpi \in {0, 50}, tofin \in BOOLEAN }

ConfigureQA ==
  /\ nCalls < MaxCalls
  /\ \E in \in QACfgInputs : SetCutAndParamsCall(in[1], in[2])

SetQALevelQA == \E level \in QALevels : SetQALevelCall(level)

InitCutsQA ==
  \E manager \in Managers, isOnTheFlyMC \in BOOLEAN :
    InitCutsCall(manager, isOnTheFlyMC)

NotifyRunQA == \E globalPeriod \in Periods : NotifyRunCall(globalPeriod)

EvaluateQA ==
  /\ tally.calls < MaxTracks
  /\ \E ttrk \in QATracks : IsTrackAcceptedCall(ttrk)

NextQA == ConfigureQA \/ SetQALevelQA \/ InitCutsQA \/ NotifyRunQA \/ EvaluateQA

SpecQA == Init /\ [][NextQA]_vars

(***************************************************************************)
(* Vocabulary of the properties.                                           *)
(***************************************************************************)

Detectors == {"ITS", "TPC", "TOF"}

EnabledSpeciesMask(this, det) ==
  CASE det = "ITS" -> this.fITSEnabledSpeciesMask
    [] det = "TPC" -> this.fTPCEnabledSpeciesMask
    [] det = "TOF" -> this.fTOFEnabledSpeciesMask

nSigmaBelow(this, det) ==
  CASE det = "ITS" -> this.fITSnSigmaBelow
    [] det = "TPC" -> this.fTPCnSigmaBelow
    [] det = "TOF" -> this.fTOFnSigmaBelow

nSigmaAbove(this, det) ==
  CASE det = "ITS" -> this.fITSnSigmaAbove
    [] det = "TPC" -> this.fTPCnSigmaAbove
    [] det = "TOF" -> this.fTOFnSigmaAbove

CutOf(det) ==
  CASE det = "ITS" -> kITSdEdxSigmaCut
    [] det = "TPC" -> kTPCdEdxSigmaCut
    [] det = "TOF" -> kTOFSigmaCut

\* The parameter id of the band of species id in detector det
BandParam(det, id) ==
  CASE det = "ITS" -> kITSdEdxSigmaCutParam_e + id
    [] det = "TPC" -> kTPCdEdxSigmaCutParam_e + id
    [] det = "TOF" -> kTOFSigmaCutParam_e + id

\* Every parameter id a caller may pass, supported or not
AllParamIDs == -1..(kNCutsParameters + 1)

\* Codes that some or all of the setters do not support
UnsupportedCodes == {-1, 6, 9, 10}

\* Codes that every setter supports
SupportedCodes == {0, 3}

\* The state in which a configuration is first reached: the initial state, or
\* one whose last call changed the instance.  Every reachable configuration
\* occurs in such a state, so a property of what a further call would do to
\* the configuration is evaluated there, once per configuration.
FreshConfiguration == nCalls = 0 \/ cuts # prev

IsSetCall(call) == call.op = "SetCutAndParams"

\* The latest call set the band (det, id), with whatever result
IsBandCall(call, det, id) == IsSetCall(call) /\ call.paramID = BandParam(det, id)

(***************************************************************************)
(* C1.  When SetCutAndParams(paramID, value) returns false, for an         *)
(* unsupported code or for a parameter id out of range, the whole instance *)
(* is as it was before the call: momentum window, bounds, masks, flags,    *)
(* stored parameters and cuts string.  Checked on the calls of the run     *)
(* and, in every reachable state, on every parameter id with the codes     *)
(* of UnsupportedCodes.                                                    *)
(***************************************************************************)
C1_RejectedCallChangesNothing ==
  /\ (IsSetCall(lastCall) /\ ~lastCall.ret) => cuts = prev
  /\ FreshConfiguration =>
     \A paramID \in AllParamIDs, value \in UnsupportedCodes :
       \A r \in {SetCutAndParams(cuts, paramID, value)} :
         ~r.ret => r.this = cuts

\* A configured instance on which a code was rejected and then a parameter id
C1_Witness ==
  /\ IsSetCall(lastCall) /\ ~lastCall.ret
  /\ lastCall.paramID \notin 0..(kNCutsParameters - 1)
  /\ IsSetCall(prevCall) /\ ~prevCall.ret
  /\ prevCall.paramID \in 0..(kNCutsParameters - 1)
  /\ cuts.fCutsEnabledMask # {}

(***************************************************************************)
(* C2.  In every state, for each of ITS, TPC and TOF, the category bit of  *)
(* the detector is set in fCutsEnabledMask if and only if the species      *)
(* mask of the detector holds at least one species.                        *)
(***************************************************************************)
C2_CategoryBitIffSpeciesEnabled ==
  \A det \in Detectors :
    CutOf(det) \in cuts.fCutsEnabledMask <=> EnabledSpeciesMask(cuts, det) # {}

\* A detector whose last species was just disabled while another detector
\* keeps one
C2_Witness ==
  /\ \E det \in Detectors, id \in Species :
       /\ IsBandCall(lastCall, det, id) /\ lastCall.ret
       /\ EnabledSpeciesMask(prev, det) = {id}
       /\ EnabledSpeciesMask(cuts, det) = {}
  /\ \E det \in Detectors : EnabledSpeciesMask(cuts, det) # {}

(***************************************************************************)
(* C3.  As amended: after a successful SetTPCTOFCut(code) the TPC+TOF      *)
(* category is enabled if and only if the code is 2 or 3 and the TPC and   *)
(* TOF species masks, as they stand at the call, have at least one species *)
(* in common, the target or any other; and in every state the category is  *)
(* enabled if and only if the TPC+TOF species mask is not empty.           *)
(***************************************************************************)
C3_CombinedEnabledIffCommonSpecies ==
  /\ kTPCTOF2DSigmaCut \in cuts.fCutsEnabledMask
       <=> cuts.fTPCTOF2DEnabledSpeciesMask # {}
  /\ (IsSetCall(lastCall) /\ lastCall.paramID = kTPCTOFCutParam /\ lastCall.ret) =>
       (kTPCTOF2DSigmaCut \in cuts.fCutsEnabledMask
          <=> /\ lastCall.value \in {2, 3}
              /\ prev.fTPCEnabledSpeciesMask \cap prev.fTOFEnabledSpeciesMask # {})

\* The combined mode configured while only a species other than the target
\* is enabled in both detectors
C3_Witness ==
  /\ IsSetCall(lastCall) /\ lastCall.paramID = kTPCTOFCutParam /\ lastCall.ret
  /\ prev.fTPCEnabledSpeciesMask \cap prev.fTOFEnabledSpeciesMask # {}
  /\ cuts.fTargetSpecies \notin prev.fTPCEnabledSpeciesMask
  /\ kTPCTOF2DSigmaCut \in cuts.fCutsEnabledMask

\* C3 as stated: enabled if and only if the target species is in the
\* intersection of the masks as they stand when SetTPCTOFCut is called
C3_AsStated ==
  (IsSetCall(lastCall) /\ lastCall.paramID = kTPCTOFCutParam /\ lastCall.ret) =>
    (kTPCTOF2DSigmaCut \in cuts.fCutsEnabledMask
       <=> cuts.fTargetSpecies \in
             prev.fTPCEnabledSpeciesMask \cap prev.fTOFEnabledSpeciesMask)

(***************************************************************************)
(* C4.  After a successful SetTPCTOFCut(code) the flags (fTOFRequired,     *)
(* fTPCTOF2Dcut) are (false, false) for code 0, (true, false) for code 1,  *)
(* (false, true) for code 2 and (true, true) for code 3.                   *)
(***************************************************************************)
C4_CombinedModeFlags ==
  (IsSetCall(lastCall) /\ lastCall.paramID = kTPCTOFCutParam /\ lastCall.ret) =>
    /\ cuts.fTOFRequired = (lastCall.value \in {1, 3})
    /\ cuts.fTPCTOF2Dcut = (lastCall.value \in {2, 3})

(***************************************************************************)
(* C5.  Calling SetCutAndParams twice in a row with the same parameter id  *)
(* and value gives the same return value both times and leaves the         *)
(* instance, cuts string included, as one call leaves it.  Checked on the  *)
(* calls of the run and, in every reachable state, on every parameter id   *)
(* with the codes of SupportedCodes.                                       *)
(***************************************************************************)
C5_SetCutAndParamsIdempotent ==
  /\ ( /\ IsSetCall(lastCall) /\ IsSetCall(prevCall)
       /\ lastCall.paramID = prevCall.paramID
       /\ lastCall.value = prevCall.value )
       => (lastCall.ret = prevCall.ret /\ cuts = prev)
  /\ FreshConfiguration =>
     \A paramID \in AllParamIDs, value \in SupportedCodes :
       \A once \in {SetCutAndParams(cuts, paramID, value)} :
         SetCutAndParams(once.this, paramID, value) = once

\* The same accepted band call twice in a row
C5_Witness ==
  /\ IsSetCall(lastCall) /\ IsSetCall(prevCall)
  /\ lastCall.paramID = prevCall.paramID
  /\ lastCall.value = prevCall.value
  /\ lastCall.ret
  /\ lastCall.value # 0
  /\ \E det \in Detectors, id \in Species : IsBandCall(lastCall, det, id)

(***************************************************************************)
(* C6.  For each of ITS, TPC and TOF and each species, setting the band    *)
(* with code 0 succeeds, takes the species out of the species mask of the  *)
(* detector and sets its bounds to (-100, +100); the category bit of the   *)
(* detector is cleared when no other species of the detector is enabled    *)
(* and stays set otherwise.                                                *)
(***************************************************************************)
C6_CodeZeroDisablesSpecies ==
  /\ FreshConfiguration =>
     \A det \in Detectors, id \in Species :
       \A r \in {SetCutAndParams(cuts, BandParam(det, id), 0)} :
          /\ r.ret
          /\ id \notin EnabledSpeciesMask(r.this, det)
          /\ nSigmaBelow(r.this, det)[id] = -1000
          /\ nSigmaAbove(r.this, det)[id] = 1000
          /\ CutOf(det) \in r.this.fCutsEnabledMask
               <=> EnabledSpeciesMask(cuts, det) \ {id} # {}
  /\ \A det \in Detectors, id \in Species :
       (IsBandCall(lastCall, det, id) /\ lastCall.value = 0) =>
          /\ lastCall.ret
          /\ id \notin EnabledSpeciesMask(cuts, det)
          /\ nSigmaBelow(cuts, det)[id] = -1000
          /\ nSigmaAbove(cuts, det)[id] = 1000
          /\ CutOf(det) \in cuts.fCutsEnabledMask
               <=> EnabledSpeciesMask(prev, det) \ {id} # {}

\* An enabled species disabled with code 0 while another species of the
\* detector stays enabled
C6_Witness ==
  \E det \in Detectors, id \in Species :
    /\ IsBandCall(lastCall, det, id) /\ lastCall.value = 0
    /\ id \in EnabledSpeciesMask(prev, det)
    /\ EnabledSpeciesMask(cuts, det) # {}
    /\ CutOf(det) \in cuts.fCutsEnabledMask

(***************************************************************************)
(* C7.  In every state, the state after construction included, every       *)
(* (detector, species) of ITS, TPC and TOF whose enable bit is off has the *)
(* bounds (-100, +100), for all five species.                              *)
(***************************************************************************)
C7_DisabledBandHasSentinelBounds ==
  \A det \in Detectors, id \in Species :
    id \notin EnabledSpeciesMask(cuts, det) =>
      /\ nSigmaBelow(cuts, det)[id] = -1000
      /\ nSigmaAbove(cuts, det)[id] = 1000

(***************************************************************************)
(* C8.  The band of a species is an acceptance band for the target         *)
(* species, passed if and only if below < nSigma < above, and a separation *)
(* band for any other species, passed if and only if nSigma < below or     *)
(* above < nSigma; a value equal to a bound fails in both cases.  Stated   *)
(* on the result of IsTrackAccepted for the evaluated ITS, TPC and TOF     *)
(* bands while the TPC+TOF category is off.                                *)
(***************************************************************************)
nSigmaOf(trk, det) ==
  CASE det = "ITS" -> trk.nSigmaITS
    [] det = "TPC" -> trk.nSigmaTPC
    [] det = "TOF" -> trk.nSigmaTOF

\* The bands evaluated for the track: the enabled species of each detector,
\* those of TOF only when the track has a usable TOF hit
EvaluatedBands(this, trk) ==
  { b \in Detectors \X Species :
      /\ b[2] \in EnabledSpeciesMask(this, b[1])
      /\ b[1] = "TOF" => (trk.TOFin /\ ~trk.TOFmismatch) }

C8_BandTestIsAsymmetric ==
  (lastTrack.op = "IsTrackAccepted"
     /\ kTPCTOF2DSigmaCut \notin cuts.fCutsEnabledMask) =>
    LET trk == lastTrack.ttrk
        gate == /\ cuts.fMinP <= trk.P /\ trk.P <= cuts.fMaxP
                /\ cuts.fTOFRequired => (trk.TOFin /\ ~trk.TOFmismatch)
        bands == EvaluatedBands(cuts, trk)
    IN /\ lastTrack.ret <=>
            /\ gate
            /\ \A b \in bands :
                 LET below == nSigmaBelow(cuts, b[1])[b[2]]
                     above == nSigmaAbove(cuts, b[1])[b[2]]
                     nSigma == nSigmaOf(trk, b[1])[b[2]]
                 IN IF b[2] = cuts.fTargetSpecies
                      THEN below < nSigma /\ nSigma < above
                      ELSE nSigma < below \/ above < nSigma
       /\ \A b \in bands :
            nSigmaOf(trk, b[1])[b[2]] \in
              {nSigmaBelow(cuts, b[1])[b[2]], nSigmaAbove(cuts, b[1])[b[2]]}
                => ~lastTrack.ret

\* A track inside the band of the target species and on the lower bound of
\* the band of another species, rejected
C8_Witness ==
  /\ lastTrack.op = "IsTrackAccepted"
  /\ cuts.fITSEnabledSpeciesMask = {kPion, kKaon}
  /\ cuts.fCutsEnabledMask = {kITSdEdxSigmaCut}
  /\ cuts.fTargetSpecies = kPion
  /\ cuts.fMinP <= lastTrack.ttrk.P
  /\ lastTrack.ttrk.nSigmaITS[kPion] = 0
  /\ lastTrack.ttrk.nSigmaITS[kKaon] = cuts.fITSnSigmaBelow[kKaon]
  /\ ~lastTrack.ret

(***************************************************************************)
(* C9.  IsTrueTrackAccepted returns true if and only if the track has a    *)
(* valid truth link (label >= 0 and the truth particle exists), the truth  *)
(* momentum p satisfies fMinP <= p <= fMaxP, and either none of the four   *)
(* categories is enabled or the true species is the target species.        *)
(***************************************************************************)
NoCutEnabled(this) ==
  this.fCutsEnabledMask \cap {kITSdEdxSigmaCut, kTPCdEdxSigmaCut,
                              kTOFSigmaCut, kTPCTOF2DSigmaCut} = {}

HasTruthLink(call) == call.label >= 0 /\ call.label \in DOMAIN call.mc

C9_TrueTrackAcceptedIff ==
  lastTrue.op = "IsTrueTrackAccepted" =>
    (lastTrue.ret <=>
       /\ HasTruthLink(lastTrue)
       /\ cuts.fMinP <= lastTrue.mc[lastTrue.label].P
       /\ lastTrue.mc[lastTrue.label].P <= cuts.fMaxP
       /\ \/ NoCutEnabled(cuts)
          \/ GetTrueSpecies(lastTrue.mc[lastTrue.label]) = cuts.fTargetSpecies)

\* A truth particle of the target species accepted by cuts with a category
\* enabled and a momentum window set
C9_Witness ==
  /\ lastTrue.op = "IsTrueTrackAccepted"
  /\ lastTrue.ret
  /\ ~NoCutEnabled(cuts)
  /\ cuts.fMinP > 0

(***************************************************************************)
(* C10.  As amended: a truth momentum below fMinP or above fMaxP is        *)
(* rejected whatever the PID configuration, and for every window with      *)
(* fMinP <= fMaxP a momentum equal to fMinP and a momentum equal to fMaxP  *)
(* pass the momentum gate.                                                 *)
(***************************************************************************)
PIDLetsThrough(this, call) ==
  \/ NoCutEnabled(this)
  \/ GetTrueSpecies(call.mc[call.label]) = this.fTargetSpecies

C10_MomentumGateInclusive ==
  (lastTrue.op = "IsTrueTrackAccepted" /\ HasTruthLink(lastTrue)) =>
    LET p == lastTrue.mc[lastTrue.label].P
    IN /\ (p < cuts.fMinP \/ p > cuts.fMaxP) => ~lastTrue.ret
       /\ ( /\ cuts.fMinP <= cuts.fMaxP
            /\ p \in {cuts.fMinP, cuts.fMaxP}
            /\ PIDLetsThrough(cuts, lastTrue) ) => lastTrue.ret

\* A truth momentum on the lower edge of a configured window, accepted
C10_Witness ==
  /\ lastTrue.op = "IsTrueTrackAccepted" /\ HasTruthLink(lastTrue)
  /\ cuts.fMinP > 0
  /\ cuts.fMaxP < 99990
  /\ lastTrue.mc[lastTrue.label].P = cuts.fMinP
  /\ lastTrue.ret

\* C10 as stated: for every configured window a momentum equal to fMinP and
\* a momentum equal to fMaxP are accepted
C10_AsStated ==
  (lastTrue.op = "IsTrueTrackAccepted" /\ HasTruthLink(lastTrue)) =>
    LET p == lastTrue.mc[lastTrue.label].P
    IN /\ (p < cuts.fMinP \/ p > cuts.fMaxP) => ~lastTrue.ret
       /\ ( /\ p \in {cuts.fMinP, cuts.fMaxP}
            /\ PIDLetsThrough(cuts, lastTrue) ) => lastTrue.ret

(***************************************************************************)
(* C11.  Before any momentum parameter has been set the window of the      *)
(* instance is the window that SetPMin(0) and SetPMax(0) produce, and no   *)
(* truth momentum, however large, is rejected by the momentum gate.        *)
(***************************************************************************)
IsMomentumCall(call) ==
  IsSetCall(call) /\ call.paramID \in {kPMinCutParam, kPMaxCutParam}

\* No SetPMin or SetPMax call has been made: the run has at most two calls
\* and none of them is one
NoMomentumCallYet ==
  nCalls <= 2 /\ ~IsMomentumCall(lastCall) /\ ~IsMomentumCall(prevCall)

C11_DefaultWindowIsUnbounded ==
  NoMomentumCallYet =>
    /\ cuts.fMinP = SetPMin(cuts, 0).this.fMinP
    /\ cuts.fMaxP = SetPMax(cuts, 0).this.fMaxP
    /\ ( /\ lastTrue.op = "IsTrueTrackAccepted"
         /\ HasTruthLink(lastTrue)
         /\ lastTrue.mc[lastTrue.label].P >= 0
         /\ PIDLetsThrough(cuts, lastTrue) ) => lastTrue.ret

(***************************************************************************)
(* C12.  SetPMin accepts exactly the codes 0..9 and sets fMinP to 0.0,     *)
(* 0.2, 0.3, ..., 1.0 GeV/c; SetPMax accepts exactly the codes 0..8 and    *)
(* sets fMaxP to "no maximum" (1e6), 0.3, 0.4, 0.5, 0.6, 0.7, 2.0, 3.0,    *)
(* 4.0 GeV/c; every other code is rejected; SetPMin leaves fMaxP and       *)
(* SetPMax leaves fMinP as it was.                                         *)
(***************************************************************************)

\* The documented tables, in tenths of GeV/c, indexed by code + 1
PMinTable == <<0, 2, 3, 4, 5, 6, 7, 8, 9, 10>>

PMaxTable == <<10000000, 3, 4, 5, 6, 7, 20, 30, 40>>

C12_MomentumPresetTables ==
  /\ (IsSetCall(lastCall) /\ lastCall.paramID = kPMinCutParam) =>
       /\ lastCall.ret <=> lastCall.value \in 0..9
       /\ lastCall.ret => cuts.fMinP = PMinTable[lastCall.value + 1]
       /\ ~lastCall.ret => cuts.fMinP = prev.fMinP
       /\ cuts.fMaxP = prev.fMaxP
  /\ (IsSetCall(lastCall) /\ lastCall.paramID = kPMaxCutParam) =>
       /\ lastCall.ret <=> lastCall.value \in 0..8
       /\ lastCall.ret => cuts.fMaxP = PMaxTable[lastCall.value + 1]
       /\ ~lastCall.ret => cuts.fMaxP = prev.fMaxP
       /\ cuts.fMinP = prev.fMinP

\* The highest minimum code set on an instance whose maximum was set before
C12_Witness ==
  /\ IsSetCall(lastCall) /\ lastCall.paramID = kPMinCutParam
  /\ lastCall.value = 9 /\ lastCall.ret
  /\ IsSetCall(prevCall) /\ prevCall.paramID = kPMaxCutParam
  /\ prevCall.value = 8 /\ prevCall.ret
  /\ cuts.fMinP = 10 /\ cuts.fMaxP = 40

(***************************************************************************)
(* C13.  The band setter of each detector accepts exactly the codes of its *)
(* documented table (ITS 0..8, TPC 0..9, TOF 0..5) and rejects every other *)
(* code; a successful call with a code c >= 1 for the species s adds s to  *)
(* the species mask of the detector, sets the bounds of s to the row c of  *)
(* the table, and leaves the bounds and the enable bits of every other     *)
(* species and of every other detector as they were.  Checked on the calls *)
(* of the run and, in every configuration, on every detector, species and  *)
(* code of BandCodes.                                                      *)
(***************************************************************************)

\* The documented tables, rows 1..N, in tenths of a sigma
DocumentedBands(det) ==
  CASE det = "ITS" -> << <<-100, 100>>, <<-60, 70>>, <<-50, 50>>, <<-40, 50>>,
                         <<-30, 50>>, <<-40, 40>>, <<-25, 40>>, <<-20, 35>> >>
    [] det = "TPC" -> << <<-100, 100>>, <<-60, 70>>, <<-50, 50>>, <<-40, 50>>,
                         <<-40, 40>>, <<-30, 40>>, <<-30, 30>>, <<-30, 50>>,
                         <<-20, 30>> >>
    [] det = "TOF" -> << <<-70, 70>>, <<-50, 50>>, <<-30, 50>>, <<-20, 30>>,
                         <<-30, 30>> >>

BandCodes == -2..11

\* What the call (det, id, c) that returned ret made of before
BandCallEffect(before, after, det, id, c, ret) ==
  /\ ret <=> c \in 0..Len(DocumentedBands(det))
  /\ (ret /\ c >= 1) =>
       /\ EnabledSpeciesMask(after, det) = EnabledSpeciesMask(before, det) \cup {id}
       /\ nSigmaBelow(after, det)[id] = DocumentedBands(det)[c][1]
       /\ nSigmaAbove(after, det)[id] = DocumentedBands(det)[c][2]
       /\ \A d2 \in Detectors, s2 \in Species :
            <<d2, s2>> # <<det, id>> =>
              /\ nSigmaBelow(after, d2)[s2] = nSigmaBelow(before, d2)[s2]
              /\ nSigmaAbove(after, d2)[s2] = nSigmaAbove(before, d2)[s2]
       /\ \A d2 \in Detectors \ {det} :
            EnabledSpeciesMask(after, d2) = EnabledSpeciesMask(before, d2)
       /\ after.fTPCTOF2DEnabledSpeciesMask = before.fTPCTOF2DEnabledSpeciesMask

C13_BandPresetTables ==
  /\ \A det \in Detectors, id \in Species :
       IsBandCall(lastCall, det, id) =>
         BandCallEffect(prev, cuts, det, id, lastCall.value, lastCall.ret)
  /\ FreshConfiguration =>
     \A det \in Detectors, id \in Species, c \in BandCodes :
       \A r \in {SetCutAndParams(cuts, BandParam(det, id), c)} :
         BandCallEffect(cuts, r.this, det, id, c, r.ret)

\* The last code of the TPC table set for pions while kaons are enabled in
\* the TPC and pions in another detector
C13_Witness ==
  /\ IsBandCall(lastCall, "TPC", kPion) /\ lastCall.value = 9 /\ lastCall.ret
  /\ kKaon \in prev.fTPCEnabledSpeciesMask
  /\ kPion \notin prev.fTPCEnabledSpeciesMask
  /\ cuts.fTPCEnabledSpeciesMask = {kPion, kKaon}
  /\ \E det \in Detectors \ {"TPC"} : kPion \in EnabledSpeciesMask(cuts, det)

(***************************************************************************)
(* C14.  GetTrueSpecies maps every particle code to a species: electron    *)
(* and positron to electron, proton and antiproton to proton, mu+ and mu-  *)
(* to muon, pi+ and pi- to pion, K+ and K- to kaon, any other code to      *)
(* unknown; the species is the same for the same code whatever the         *)
(* momentum of the particle and the configuration of the cuts.             *)
(***************************************************************************)

\* The species of a code, by the absolute value of the code
SpeciesOfCode(code) ==
  LET a == IF code < 0 THEN -code ELSE code
  IN CASE a = 11 -> kElectron
       [] a = 13 -> kMuon
       [] a = 211 -> kPion
       [] a = 321 -> kKaon
       [] a = 2212 -> kProton
       [] OTHER -> kUnknown

C14_GetTrueSpeciesTotal ==
  lastTrue.op = "GetTrueSpecies" =>
    /\ lastTrue.ret \in Species \cup {kUnknown}
    /\ lastTrue.ret = SpeciesOfCode(lastTrue.par.PdgCode)

\* An antiparticle classified by cuts that have a category enabled and a
\* momentum window set
C14_Witness ==
  /\ lastTrue.op = "GetTrueSpecies"
  /\ lastTrue.par.PdgCode = pdgKMinus
  /\ lastTrue.ret = kKaon
  /\ ~NoCutEnabled(cuts)
  /\ cuts.fMinP > 0

(***************************************************************************)
(* C15.  Once InitCuts has returned, no IsTrackAccepted call reads an n    *)
(* sigma value or a start time through a null fPIDResponse, whatever the   *)
(* configuration and the QA level.  Stated on the reads of the histogram   *)
(* fills.                                                                  *)
(***************************************************************************)
C15_PIDResponseThereAtEvaluation ==
  (Initialized /\ lastTrack.op = "IsTrackAccepted") => ~lastTrack.fault

(***************************************************************************)
(* C16.  NotifyRun calls DefineHistograms if and only if the global period *)
(* differs from fDataPeriod, and leaves fDataPeriod equal to the global    *)
(* period; with the global period unchanged it leaves the instance as it   *)
(* was; with QA histograms on, the call that defines leaves newly          *)
(* allocated, empty histograms; no call changes the momentum window, the   *)
(* bounds, the masks, the TPC+TOF flags or the stored parameters.          *)
(***************************************************************************)

\* The configuration of the cuts: everything the setters set
Configuration(this) ==
  [ fMinP |-> this.fMinP, fMaxP |-> this.fMaxP,
    fTOFRequired |-> this.fTOFRequired, fTPCTOF2Dcut |-> this.fTPCTOF2Dcut,
    fITSnSigmaAbove |-> this.fITSnSigmaAbove,
    fITSnSigmaBelow |-> this.fITSnSigmaBelow,
    fTPCnSigmaAbove |-> this.fTPCnSigmaAbove,
    fTPCnSigmaBelow |-> this.fTPCnSigmaBelow,
    fTOFnSigmaAbove |-> this.fTOFnSigmaAbove,
    fTOFnSigmaBelow |-> this.fTOFnSigmaBelow,
    fCutsEnabledMask |-> this.fCutsEnabledMask,
    fITSEnabledSpeciesMask |-> this.fITSEnabledSpeciesMask,
    fTPCEnabledSpeciesMask |-> this.fTPCEnabledSpeciesMask,
    fTOFEnabledSpeciesMask |-> this.fTOFEnabledSpeciesMask,
    fTPCTOF2DEnabledSpeciesMask |-> this.fTPCTOF2DEnabledSpeciesMask ]

C16_NotifyRunDefinesOnPeriodChange ==
  lastNotify.op = "NotifyRun" =>
    LET before == lastNotify.before
        after == lastNotify.after
    IN /\ lastNotify.defined <=> lastNotify.globalPeriod # before.fDataPeriod
       /\ after.fDataPeriod = lastNotify.globalPeriod
       /\ ~lastNotify.defined => after = before
       /\ (lastNotify.defined /\ before.fQALevel > kQALevelNone) =>
            /\ after.fhCutsStatistics.nTracks = 0
            /\ after.fhCutsStatistics.nCutTracks = 0
            /\ \A i \in 0..1 : /\ after.fhITSdEdxSigmaVsP[i] = 0
                                /\ after.fhTPCdEdxSigmaVsP[i] = 0
                                /\ after.fhTOFSigmaVsP[i] = 0
            /\ after.fHistogramsList.entries > before.fHistogramsList.entries
       /\ Configuration(after) = Configuration(before)
       /\ after.fParameters = before.fParameters
       /\ after.fCutsString = before.fCutsString

\* A second NotifyRun with the period of the first one, on cuts with a band
\* enabled whose histograms have counted a track
C16_Witness ==
  /\ lastNotify.op = "NotifyRun"
  /\ ~lastNotify.defined
  /\ tally.notifies = 2
  /\ lastNotify.before.fQALevel > kQALevelNone
  /\ lastNotify.before.fhCutsStatistics.nTracks > 0
  /\ lastNotify.before.fTPCEnabledSpeciesMask # {}

(***************************************************************************)
(* C17.  With the QA histograms on, as long as no call has ended on the    *)
(* null read of C15: the bin "n tracks" holds the number of                *)
(* IsTrackAccepted calls made since the histograms were allocated, the bin *)
(* "n cut tracks" the number of those that returned false, and each        *)
(* "after" histogram of ITS and TPC has one entry per call that returned   *)
(* true, so that n tracks = n cut tracks + entries of an "after"           *)
(* histogram; each "before" histogram of ITS and TPC has one entry per     *)
(* call when the QA level is above light and none otherwise.               *)
(***************************************************************************)

\* The four histograms of ITS and TPC, bucket i
ITSTPCEntries(this, i) ==
  { this.fhITSdEdxSigmaVsP[i], this.fhITSdEdxSignalVsP[i],
    this.fhTPCdEdxSigmaVsP[i], this.fhTPCdEdxSignalVsP[i] }

C17_QACountersMatchCalls ==
  (cuts.fQALevel > kQALevelNone /\ cuts.fhCutsStatistics # NULL /\ ~Stopped) =>
    /\ cuts.fhCutsStatistics.nTracks = tally.tracks
    /\ cuts.fhCutsStatistics.nCutTracks = tally.returnedFalse
    /\ ITSTPCEntries(cuts, 1) = {tally.returnedTrue}
    /\ cuts.fhCutsStatistics.nTracks =
         cuts.fhCutsStatistics.nCutTracks + cuts.fhITSdEdxSigmaVsP[1]
    /\ ITSTPCEntries(cuts, 0) =
         {IF cuts.fQALevel > kQALevelLight THEN tally.tracks ELSE 0}

\* At QA level light, an accepted and a rejected track
C17_Witness ==
  /\ cuts.fQALevel = kQALevelLight
  /\ cuts.fhCutsStatistics # NULL
  /\ ~Stopped
  /\ tally.returnedTrue = 1
  /\ tally.returnedFalse = 1
  /\ cuts.fhCutsStatistics.nTracks = 2

(***************************************************************************)
(* C18.  As amended: the species mask of the TPC+TOF cut is what the       *)
(* latest accepted SetTPCTOFCut call made of it, the species common to the *)
(* TPC and TOF masks at that call for the codes 2 and 3 and no species for *)
(* the codes 0 and 1; the band setters leave it as it is, so that it stays *)
(* a subset of the common species of the TPC and TOF masks as long as no   *)
(* species of it is disabled in the TPC or in the TOF.                     *)
(***************************************************************************)
CommonSpecies(this) == this.fTPCEnabledSpeciesMask \cap this.fTOFEnabledSpeciesMask

IsCombinedCall(call) == IsSetCall(call) /\ call.paramID = kTPCTOFCutParam

\* The latest call disabled, in det, a species of the TPC+TOF mask
DisabledCombinedSpecies(det) ==
  \E id \in prev.fTPCTOF2DEnabledSpeciesMask :
    IsBandCall(lastCall, det, id) /\ lastCall.value = 0 /\ lastCall.ret

C18_CombinedMaskIsSnapshot ==
  /\ (IsCombinedCall(lastCall) /\ lastCall.ret) =>
       cuts.fTPCTOF2DEnabledSpeciesMask =
         IF lastCall.value \in {2, 3} THEN CommonSpecies(cuts) ELSE {}
  /\ (IsSetCall(lastCall) /\ ~(IsCombinedCall(lastCall) /\ lastCall.ret)) =>
       cuts.fTPCTOF2DEnabledSpeciesMask = prev.fTPCTOF2DEnabledSpeciesMask
  /\ ( /\ prev.fTPCTOF2DEnabledSpeciesMask \subseteq CommonSpecies(prev)
       /\ ~DisabledCombinedSpecies("TPC")
       /\ ~DisabledCombinedSpecies("TOF") ) =>
       cuts.fTPCTOF2DEnabledSpeciesMask \subseteq CommonSpecies(cuts)

\* A species of the TPC+TOF mask disabled in the TPC or in the TOF after the
\* TPC+TOF cut was configured: it stays in the TPC+TOF mask
C18_Witness ==
  \E det \in {"TPC", "TOF"}, id \in Species :
    /\ IsBandCall(lastCall, det, id) /\ lastCall.value = 0 /\ lastCall.ret
    /\ id \in prev.fTPCTOF2DEnabledSpeciesMask
    /\ id \in cuts.fTPCTOF2DEnabledSpeciesMask
    /\ id \notin CommonSpecies(cuts)
    /\ cuts.fParameters[kTPCTOFCutParam] = 2

\* C18 as stated: in every state the TPC+TOF mask is a subset of the species
\* common to the TPC and TOF masks as they are, and equal to them while the
\* latest accepted TPC+TOF code is 2 or 3
C18_AsStated ==
  /\ cuts.fTPCTOF2DEnabledSpeciesMask \subseteq CommonSpecies(cuts)
  /\ cuts.fParameters[kTPCTOFCutParam] \in {2, 3} =>
       cuts.fTPCTOF2DEnabledSpeciesMask = CommonSpecies(cuts)

(***************************************************************************)
(* C19.  The configuration is a function of the stored parameters: the     *)
(* run of SetCutAndParams calls that led to the instance and the run that  *)
(* sets, on a new instance, every parameter once, in the order of the      *)
(* parameter ids and with the values that the instance has stored, end     *)
(* with the same stored parameters and so with the same momentum window,   *)
(* bounds, species masks, category mask and TPC+TOF flags.                 *)
(***************************************************************************)
RECURSIVE SetAllFrom(_, _, _)
SetAllFrom(this, parameters, paramID) ==
  IF paramID = kNCutsParameters
    THEN this
    ELSE SetAllFrom(SetCutAndParams(this, paramID, parameters[paramID]).this,
                    parameters, paramID + 1)

\* A new instance on which every parameter was set once, in the order of the
\* parameter ids
ConfiguredInOrder(target, parameters) ==
  SetAllFrom(AliCSPIDCuts(target), parameters, kPMinCutParam)

C19_ConfigurationFollowsParameters ==
  LET inOrder == ConfiguredInOrder(cuts.fTargetSpecies, cuts.fParameters)
  IN inOrder.fParameters = cuts.fParameters =>
       Configuration(inOrder) = Configuration(cuts)

(***************************************************************************)
(* C20.  As amended: after any run of SetPMin and SetPMax calls the window *)
(* is not empty, fMinP <= fMaxP, exactly when the stored maximum code is   *)
(* 0, 6, 7 or 8 (the maximum was never set, or is "no maximum", 2.0, 3.0   *)
(* or 4.0 GeV/c) or the table value of the stored minimum code is not      *)
(* above the table value of the stored maximum code.                       *)
(***************************************************************************)
C20_WindowEmptyOnlyForSmallMaximum ==
  LET minCode == cuts.fParameters[kPMinCutParam]
      maxCode == cuts.fParameters[kPMaxCutParam]
  IN /\ maxCode \in {0, 6, 7, 8} => cuts.fMinP <= cuts.fMaxP
     /\ maxCode \in 1..5 =>
          (cuts.fMinP <= cuts.fMaxP
             <=> PMinTable[minCode + 1] <= PMaxTable[maxCode + 1])

\* The highest minimum with the lowest of the wide maxima, and a window with
\* its two edges equal, are the two ends of the case; the first one
C20_Witness ==
  /\ cuts.fParameters[kPMinCutParam] = 9
  /\ cuts.fParameters[kPMaxCutParam] = 6
  /\ cuts.fMinP = 10
  /\ cuts.fMaxP = 20
  /\ IsMomentumCall(lastCall) /\ lastCall.ret
  /\ IsMomentumCall(prevCall) /\ prevCall.ret

\* C20 as stated: the window is never empty
C20_AsStated == cuts.fMinP <= cuts.fMaxP

============================================================================
